---------------------------- MODULE Spec2Model ----------------------------
(***************************************************************************)
(* A model of src/src/index.ts: the chess Board (an 8x8 grid of optional   *)
(* pieces plus a selected square), its renderer Board.draw, which rebuilds *)
(* the <body> element's subtree, and the click handler board.onSquareClick *)
(* with its module-level sourceSquare marker.                              *)
(*                                                                         *)
(* Objects created by `new Piece(...)` are heap references 1..32 (in the   *)
(* order the constructor allocates them); their two readonly fields live   *)
(* in the constant heap Pieces.  A DOM element is a record of its class    *)
(* list, its text, its click listeners and its children.                   *)
(***************************************************************************)
EXTENDS Integers, Sequences, FiniteSets, TLC

\* ------------------------------------------------------------------ bounds

\* Number of click events delivered in a behaviour of Spec.
MaxClicks == 5
\* Spec delivers its clicks to the cells of one rendered column, this one
\* (zero-based from the left), in any row.
ClickCol == 4
\* Number of click events delivered in a behaviour of SpecWide, which
\* delivers clicks to every rendered cell.
MaxWideClicks == 2
\* Largest number of children <body> holds before the first draw.
MaxInitChildren == 1
\* Number of direct calls of Board.get and Board.set in a behaviour of
\* SpecAccess.
MaxApiCalls == 2
\* SpecAccess draws the file and the rank of those calls from
\* -CoordSlack .. SIZE - 1 + CoordSlack.
CoordSlack == 1

\* --------------------------------------------------------------- constants

SIZE == 8

WHITE == 0
BLACK == 1

\* null for a SquareContent; piece references are 1..32.
NULL == 0
\* undefined: what reading a missing array index gives.
UNDEFINED == -1
\* null for a SquarePosition | null.
NullPos == [file |-> -1, rank |-> -1]

ROOK == [character |-> [c \in {WHITE, BLACK} |-> IF c = WHITE THEN "U+2656" ELSE "U+265C"]]
KNIGHT == [character |-> [c \in {WHITE, BLACK} |-> IF c = WHITE THEN "U+2658" ELSE "U+265E"]]
BISHOP == [character |-> [c \in {WHITE, BLACK} |-> IF c = WHITE THEN "U+2657" ELSE "U+265D"]]
KING == [character |-> [c \in {WHITE, BLACK} |-> IF c = WHITE THEN "U+2654" ELSE "U+265A"]]
QUEEN == [character |-> [c \in {WHITE, BLACK} |-> IF c = WHITE THEN "U+2655" ELSE "U+265B"]]
PAWN == [character |-> [c \in {WHITE, BLACK} |-> IF c = WHITE THEN "U+2659" ELSE "U+265F"]]

\* PieceType.INITIAL, indexed from 1 here (file + 1).
INITIAL == <<ROOK, KNIGHT, BISHOP, QUEEN, KING, BISHOP, KNIGHT, ROOK>>

Coords == 0..(SIZE - 1)

\* ------------------------------------------------------- Board.constructor

\* A JavaScript array, indexed from 0, from the sequence of its elements.
ZeroBased(seq) == [i \in 0..(Len(seq) - 1) |-> seq[i + 1]]

\* PieceArgs with the second player's pawns one rank too low.
PieceArgs_PawnsOnRank5(file, rank) ==
    IF rank = 0 THEN <<INITIAL[file + 1], WHITE>>
    ELSE IF rank = 1 THEN <<PAWN, WHITE>>
    ELSE IF rank = 5 THEN <<PAWN, BLACK>>
    ELSE IF rank = 7 THEN <<INITIAL[file + 1], BLACK>>
    ELSE <<>>

\* The `piece` expression of the constructor's inner loop for (file, rank):
\* the arguments of the `new Piece` it evaluates, or <<>> where it is null.
PieceArgs(file, rank) ==
    IF rank = 0 THEN <<INITIAL[file + 1], WHITE>>
    ELSE IF rank = 1 THEN <<PAWN, WHITE>>
    ELSE IF rank = 6 THEN <<PAWN, BLACK>>
    ELSE IF rank = 7 THEN <<INITIAL[file + 1], BLACK>>
    ELSE <<>>

\* The constructor's inner loop from `rank` on: rankPieces is the array
\* built so far, heap the Piece objects created so far (a new Piece gets
\* the next reference).
RECURSIVE RankLoop(_, _, _, _)
RankLoop(file, rank, rankPieces, heap) ==
    IF rank < SIZE
    THEN LET args == PieceArgs(file, rank)
         IN  IF args # <<>>
             THEN RankLoop(file, rank + 1,
                           Append(rankPieces, Len(heap) + 1),
                           Append(heap, [pieceType |-> args[1], color |-> args[2]]))
             ELSE RankLoop(file, rank + 1, Append(rankPieces, NULL), heap)
    ELSE [rankPieces |-> rankPieces, heap |-> heap]

\* The constructor's outer loop from `file` on.
RECURSIVE FileLoop(_, _, _)
FileLoop(file, sq, heap) ==
    IF file < SIZE
    THEN LET r == RankLoop(file, 0, <<>>, heap)
         IN  FileLoop(file + 1, Append(sq, ZeroBased(r.rankPieces)), r.heap)
    ELSE [squares |-> ZeroBased(sq), heap |-> heap]

\* new Board(): the squares array, squares[file][rank], and the heap of
\* Piece objects (none is created later, and both fields are readonly).
Constructed == FileLoop(0, <<>>, <<>>)

InitialSquares == Constructed.squares

Pieces == Constructed.heap

\* Piece_character with the glyph of the other colour.
Piece_character_OtherColour(ref) ==
    Pieces[ref].pieceType.character[1 - Pieces[ref].color]

\* Piece.character()
Piece_character(ref) == Pieces[ref].pieceType.character[Pieces[ref].color]

\* --------------------------------------------------------- Board.get / set

\* A JavaScript array is a function from its own indices to their values.
\* The read a[i]: undefined where a has no index i.
ArrayRead(a, i) == IF i \in DOMAIN a THEN a[i] ELSE UNDEFINED

\* The write a[i] = v: it replaces the value at an index a has, and gives
\* a the index i where it has none.
ArrayWrite(a, i, v) ==
    IF i \in DOMAIN a
    THEN [a EXCEPT ![i] = v]
    ELSE [j \in DOMAIN a \cup {i} |-> IF j = i THEN v ELSE a[j]]

\* this.squares[i][j]: a TypeError where squares has no index i (an index
\* into undefined), else the value read.
Load(sq, i, j) ==
    IF i \in DOMAIN sq
    THEN [threw |-> FALSE, value |-> ArrayRead(sq[i], j)]
    ELSE [threw |-> TRUE, value |-> UNDEFINED]

\* this.squares[i][j] = piece: a TypeError where squares has no index i,
\* else the write into the array squares[i].
Store(sq, i, j, piece) ==
    IF i \in DOMAIN sq
    THEN [threw |-> FALSE, squares |-> [sq EXCEPT ![i] = ArrayWrite(@, j, piece)]]
    ELSE [threw |-> TRUE, squares |-> sq]

\* Board.get(pos): whether it threw, and the value returned if not.
Board_get(sq, pos) == Load(sq, pos.file, pos.rank)

\* Board_set with the two indices swapped.
Board_set_Transposed(sq, pos, piece) == Store(sq, pos.rank, pos.file, piece)

\* Board.set(pos, piece): whether it threw, and squares afterwards.
Board_set(sq, pos, piece) == Store(sq, pos.file, pos.rank, piece)

\* ------------------------------------------------------------------ the DOM

\* toggle that adds the token whatever `force` is.
Toggle_IgnoresForce(classList, token, force) == classList \cup {token}

\* classList.toggle(token, force)
Toggle(classList, token, force) ==
    IF force THEN classList \cup {token} ELSE classList \ {token}

\* A child of <body> that the page holds before the first draw.
ForeignElement == [classList |-> {}, children |-> <<>>]

\* clearElement with `if` for `while`: it removes the first child only.
clearElement_RemovesFirstOnly(e) == IF e # <<>> THEN Tail(e) ELSE e

\* Remove all children from element (given as its sequence of children).
RECURSIVE clearElement(_)
clearElement(e) == IF e # <<>> THEN clearElement(Tail(e)) ELSE e

\* SquareElement whose test for the selected square compares the file only.
SquareElement_SelectsFile(sq, selected, file, rank) ==
    LET piece == sq[file][rank]
        isDark == (rank + file) % 2 = 0
        c1 == {"square"}
        c2 == Toggle(c1, "square-light", ~isDark)
        c3 == Toggle(c2, "square-dark", isDark)
        c4 == IF /\ selected # NullPos
                 /\ selected.file = file
              THEN c3 \cup {"square-selected"}
              ELSE c3
    IN  [classList |-> c4,
         innerText |-> IF piece # NULL THEN Piece_character(piece) ELSE "",
         listeners |-> << [file |-> file, rank |-> rank] >>]

\* The squareElement built by the inner loop of draw for (file, rank).
SquareElement(sq, selected, file, rank) ==
    LET piece == sq[file][rank]
        isDark == (rank + file) % 2 = 0
        c1 == {"square"}
        c2 == Toggle(c1, "square-light", ~isDark)
        c3 == Toggle(c2, "square-dark", isDark)
        c4 == IF /\ selected # NullPos
                 /\ selected.file = file
                 /\ selected.rank = rank
              THEN c3 \cup {"square-selected"}
              ELSE c3
    IN  [classList |-> c4,
         innerText |-> IF piece # NULL THEN Piece_character(piece) ELSE "",
         listeners |-> << [file |-> file, rank |-> rank] >>]

\* The rankElement built by one iteration of the outer loop of draw.
RankElement(sq, selected, rank) ==
    [classList |-> {"rank"},
     children |-> [i \in 1..SIZE |-> SquareElement(sq, selected, i - 1, rank)]]

\* The ranks in ascending order.
DrawOrder_Ascending == [i \in 1..SIZE |-> i - 1]

\* The ranks in the order the outer loop of draw visits them.
DrawOrder == [i \in 1..SIZE |-> SIZE - i]

\* Whether draw throws: `piece !== null` lets undefined through, and
\* piece.character() on undefined is a TypeError.
DrawThrows(sq) ==
    \E file \in Coords : \E rank \in Coords : sq[file][rank] = UNDEFINED

\* The rows draw has appended when it throws: the iterations (row i, cell
\* j) before the first one that reads undefined have run in full, and that
\* one has appended its row (line 114) but not its cell (line 134).
RowsUntilThrow(sq, selected) ==
    LET faults == {p \in (1..SIZE) \X (1..SIZE) :
                      sq[p[2] - 1][DrawOrder[p[1]]] = UNDEFINED}
        first == CHOOSE p \in faults :
                    \A q \in faults : p[1] < q[1] \/ (p[1] = q[1] /\ p[2] <= q[2])
    IN  [i \in 1..first[1] |->
            IF i < first[1]
            THEN RankElement(sq, selected, DrawOrder[i])
            ELSE [classList |-> {"rank"},
                  children |-> [j \in 1..(first[2] - 1) |->
                                   SquareElement(sq, selected, j - 1, DrawOrder[i])]]]

\* Board.draw(element): the children of element afterwards.
Board_draw(sq, selected, element) ==
    clearElement(element) \o
        (IF DrawThrows(sq)
         THEN RowsUntilThrow(sq, selected)
         ELSE [i \in 1..SIZE |-> RankElement(sq, selected, DrawOrder[i])])

\* ------------------------------------------------------- board.onSquareClick

\* IdleBranch without the test for an occupied square.
IdleBranch_SelectsEmpty(st, pos, piece) ==
    [st EXCEPT !.selectedSquare = pos, !.sourceSquare = pos]

\* IdleBranch that records the selection but forgets `sourceSquare = pos`.
IdleBranch_ForgetsSource(st, pos, piece) ==
    IF piece # NULL
    THEN [st EXCEPT !.selectedSquare = pos]
    ELSE st

\* Lines 148-151: the handler's branch for sourceSquare === null.
IdleBranch(st, pos, piece) ==
    IF piece # NULL
    THEN [st EXCEPT !.selectedSquare = pos, !.sourceSquare = pos]
    ELSE st

\* Move that empties the source with undefined in place of null.
Move_ClearsWithUndefined(sq, source, pos) ==
    LET got == Board_get(sq, source)
        put == Board_set(sq, pos, got.value)
        cleared == Board_set(put.squares, source, UNDEFINED)
    IN  [threw |-> FALSE, squares |-> cleared.squares,
         accessed |-> <<source, pos, source>>]

\* Move with its two statements in the other order: the source is emptied
\* before it is read.
Move_ClearsSourceFirst(sq, source, pos) ==
    LET cleared == Board_set(sq, source, NULL)
        got == Board_get(cleared.squares, source)
        put == Board_set(cleared.squares, pos, got.value)
    IN  [threw |-> FALSE, squares |-> put.squares,
         accessed |-> <<source, source, pos>>]

\* Move without its second statement: the source keeps its piece.
Move_KeepsSource(sq, source, pos) ==
    LET got == Board_get(sq, source)
        put == Board_set(sq, pos, got.value)
    IN  [threw |-> FALSE, squares |-> put.squares,
         accessed |-> <<source, pos>>]

\* Lines 154-155: board.set(pos, board.get(sourceSquare)) and then
\* board.set(sourceSquare, null).  The outcome: whether a call threw (the
\* later calls are then not made), squares afterwards, and the positions
\* passed to get and set, in order.
Move(sq, source, pos) ==
    LET got == Board_get(sq, source)
        put == Board_set(sq, pos, got.value)
        cleared == Board_set(put.squares, source, NULL)
    IN  IF got.threw
        THEN [threw |-> TRUE, squares |-> sq, accessed |-> <<source>>]
        ELSE IF put.threw
        THEN [threw |-> TRUE, squares |-> sq, accessed |-> <<source, pos>>]
        ELSE [threw |-> cleared.threw, squares |-> cleared.squares,
              accessed |-> <<source, pos, source>>]

\* What lines 153-156 do when the clicked square is the source: nothing.
NoMove(sq) == [threw |-> FALSE, squares |-> sq, accessed |-> <<>>]

\* Relocate that leaves a destination holding a piece of the mover's own
\* colour as it is.
Relocate_SparesOwnColour(sq, source, pos) ==
    IF pos.file # source.file \/ pos.rank # source.rank
    THEN IF /\ Board_get(sq, pos).value \in DOMAIN Pieces
            /\ Board_get(sq, source).value \in DOMAIN Pieces
            /\ Pieces[Board_get(sq, pos).value].color =
                  Pieces[Board_get(sq, source).value].color
         THEN NoMove(sq)
         ELSE Move(sq, source, pos)
    ELSE NoMove(sq)

\* Relocate without the test that the clicked square differs from the source.
Relocate_Unguarded(sq, source, pos) == Move(sq, source, pos)

\* Lines 153-156: the relocation, made when the clicked square is not the
\* source.
Relocate(sq, source, pos) ==
    IF pos.file # source.file \/ pos.rank # source.rank
    THEN Move(sq, source, pos)
    ELSE NoMove(sq)

\* ArmedBranch that forgets to clear board.selectedSquare.
ArmedBranch_KeepsSelection(st, pos) ==
    LET moved == Relocate(st.squares, st.sourceSquare, pos)
    IN  IF moved.threw
        THEN [st EXCEPT !.squares = moved.squares,
                        !.accessed = @ \o moved.accessed,
                        !.errors = @ + 1]
        ELSE [st EXCEPT !.squares = moved.squares,
                        !.accessed = @ \o moved.accessed,
                        !.sourceSquare = NullPos]

\* ArmedBranch that, after a relocation, selects the destination.
ArmedBranch_StaysArmed(st, pos) ==
    LET moved == Relocate(st.squares, st.sourceSquare, pos)
    IN  IF pos = st.sourceSquare
        THEN [st EXCEPT !.selectedSquare = NullPos,
                        !.sourceSquare = NullPos]
        ELSE [st EXCEPT !.squares = moved.squares,
                        !.accessed = @ \o moved.accessed,
                        !.selectedSquare = pos,
                        !.sourceSquare = pos]

\* Lines 153-159: the handler's branch for sourceSquare !== null.  An
\* exception in the relocation leaves the handler there: the markers stay.
ArmedBranch(st, pos) ==
    LET moved == Relocate(st.squares, st.sourceSquare, pos)
    IN  IF moved.threw
        THEN [st EXCEPT !.squares = moved.squares,
                        !.accessed = @ \o moved.accessed,
                        !.errors = @ + 1]
        ELSE [st EXCEPT !.squares = moved.squares,
                        !.accessed = @ \o moved.accessed,
                        !.selectedSquare = NullPos,
                        !.sourceSquare = NullPos]

\* The handler without its last line.
Redraw_Skipped(st) == st

\* Line 161: board.draw(body) at the end of the handler.
Redraw(st) ==
    [st EXCEPT !.body = Board_draw(st.squares, st.selectedSquare, st.body),
               !.draws = @ + 1,
               !.errors = IF DrawThrows(st.squares) THEN @ + 1 ELSE @]

\* The handler: st holds squares, selectedSquare, sourceSquare and the
\* children of body, and for the event being handled the number of draw
\* calls made so far (draws), the arguments of the handler calls made so
\* far (calls), the positions passed to board.get and board.set so far
\* (accessed) and the number of exceptions that left a handler (errors).
\* An exception ends the handler where it is raised: what was written
\* before it stays, and board.draw is not reached.
onSquareClick(st, file, rank) ==
    LET pos == [file |-> file, rank |-> rank]
        got == Board_get(st.squares, pos)
        entered == [st EXCEPT !.calls = Append(@, pos),
                              !.accessed = Append(@, pos)]
        updated == {IF got.threw
                    THEN [entered EXCEPT !.errors = @ + 1]
                    ELSE IF st.sourceSquare = NullPos
                    THEN IdleBranch(entered, pos, got.value)
                    ELSE ArmedBranch(entered, pos)}
    IN  CHOOSE out \in {IF st1.errors > st.errors THEN st1 ELSE Redraw(st1) :
                           st1 \in updated} : TRUE

\* Listener that passes its two arguments in the wrong order.
Listener_SwapsArguments(st, closure) ==
    onSquareClick(st, closure.rank, closure.file)

\* Listener whose rank is one too high.
Listener_RankOffByOne(st, closure) ==
    onSquareClick(st, closure.file, closure.rank + 1)

\* Line 133: the listener draw registers on a cell, `() =>
\* this.onSquareClick(file, rank)`, with the file and rank its closure
\* captured.
Listener(st, closure) == onSquareClick(st, closure.file, closure.rank)

\* A click event on an element: each registered listener runs in turn.
RECURSIVE Dispatch(_, _)
Dispatch(listeners, st) ==
    IF listeners = <<>> THEN st
    ELSE Dispatch(Tail(listeners), Listener(st, Head(listeners)))

\* ------------------------------------------------------------------- state

VARIABLES
    pc,              \* "start" before line 163 has run, "ready" after
    squares,         \* board.squares
    selectedSquare,  \* board.selectedSquare
    sourceSquare,    \* the module-level sourceSquare
    body,            \* the children of <body>
    clicks,          \* number of click events delivered
    lastCell,        \* history: row and column (zero-based) of the cell last clicked
    prevCell,        \* history: row and column of the cell clicked before it
    calls,           \* history: arguments of the onSquareClick calls of the last click
    redraws,         \* history: number of draw calls made by the last step
    accessed,        \* history: positions passed to get and set by the last click
    errors,          \* history: number of exceptions raised by the last click
    api,             \* history: the last direct call of Board.get or Board.set
    pre,             \* history: squares and markers before the last click
    pre2             \* history: squares and markers before the click before it

vars == <<pc, squares, selectedSquare, sourceSquare, body, clicks,
          lastCell, prevCell, calls, redraws, accessed, errors, api, pre, pre2>>

Snapshot == [squares |-> squares,
             selectedSquare |-> selectedSquare,
             sourceSquare |-> sourceSquare]

NoCell == [row |-> -1, col |-> -1]

NoCall == [count |-> 0, op |-> "none", pos |-> NullPos, piece |-> NULL,
           threw |-> FALSE, value |-> NULL, before |-> InitialSquares]

Init ==
    /\ pc = "start"
    /\ squares = InitialSquares
    /\ selectedSquare = NullPos
    /\ sourceSquare = NullPos
    /\ \E n \in 0..MaxInitChildren : body = [i \in 1..n |-> ForeignElement]
    /\ clicks = 0
    /\ lastCell = NoCell
    /\ prevCell = NoCell
    /\ calls = <<>>
    /\ redraws = 0
    /\ accessed = <<>>
    /\ errors = 0
    /\ api = NoCall
    /\ pre = [squares |-> InitialSquares, selectedSquare |-> NullPos, sourceSquare |-> NullPos]
    /\ pre2 = [squares |-> InitialSquares, selectedSquare |-> NullPos, sourceSquare |-> NullPos]

\* Line 163: the draw that ends the script.
Startup ==
    /\ pc = "start"
    /\ pc' = "ready"
    /\ body' = Board_draw(squares, selectedSquare, body)
    /\ redraws' = 1
    /\ UNCHANGED <<squares, selectedSquare, sourceSquare, clicks,
                   lastCell, prevCell, calls, accessed, errors, api, pre, pre2>>

\* The host delivers a click to the cell in row `row`, column `col` (both
\* one-based here) of the rendered grid.
Click(row, col) ==
    /\ pc = "ready"
    /\ row \in 1..Len(body)
    /\ col \in 1..Len(body[row].children)
    /\ \E st \in {Dispatch(body[row].children[col].listeners,
                           [squares |-> squares,
                            selectedSquare |-> selectedSquare,
                            sourceSquare |-> sourceSquare,
                            body |-> body,
                            draws |-> 0,
                            calls |-> <<>>,
                            accessed |-> <<>>,
                            errors |-> 0])} :
           /\ squares' = st.squares
           /\ selectedSquare' = st.selectedSquare
           /\ sourceSquare' = st.sourceSquare
           /\ body' = st.body
           /\ redraws' = st.draws
           /\ calls' = st.calls
           /\ accessed' = st.accessed
           /\ errors' = st.errors
    /\ lastCell' = [row |-> row - 1, col |-> col - 1]
    /\ prevCell' = lastCell
    /\ clicks' = clicks + 1
    /\ pre' = Snapshot
    /\ pre2' = pre
    /\ pc' = pc
    /\ api' = api

\* Clicks on the cells of column ClickCol, in any rendered row.
ClickInColumn ==
    /\ clicks < MaxClicks
    /\ \E row \in 1..Len(body) : Click(row, ClickCol + 1)

\* Clicks on any rendered cell.
ClickAnywhere ==
    /\ clicks < MaxWideClicks
    /\ \E row \in 1..Len(body) :
          \E col \in 1..Len(body[row].children) : Click(row, col)

Next == Startup \/ ClickInColumn

Spec == Init /\ [][Next]_vars

NextWide == Startup \/ ClickAnywhere

SpecWide == Init /\ [][NextWide]_vars

\* The coordinates SpecAccess passes to Board.get and Board.set.
AccessCoords == (0 - CoordSlack)..(SIZE - 1 + CoordSlack)

AccessPositions == [file : AccessCoords, rank : AccessCoords]

\* A piece to pass to Board.set: the first player's king.
SomePiece == InitialSquares[4][0]

\* A direct call board.get(pos).
CallGet ==
    /\ api.count < MaxApiCalls
    /\ \E pos \in AccessPositions :
          \E out \in {Board_get(squares, pos)} :
              api' = [count |-> api.count + 1, op |-> "get", pos |-> pos,
                      piece |-> NULL, threw |-> out.threw, value |-> out.value,
                      before |-> squares]
    /\ UNCHANGED <<pc, squares, selectedSquare, sourceSquare, body, clicks,
                   lastCell, prevCell, calls, redraws, accessed, errors, pre, pre2>>

\* A direct call board.set(pos, piece).
CallSet ==
    /\ api.count < MaxApiCalls
    /\ \E pos \in AccessPositions : \E piece \in {NULL, SomePiece} :
          \E out \in {Board_set(squares, pos, piece)} :
              /\ squares' = out.squares
              /\ api' = [count |-> api.count + 1, op |-> "set", pos |-> pos,
                         piece |-> piece, threw |-> out.threw, value |-> NULL,
                         before |-> squares]
    /\ UNCHANGED <<pc, selectedSquare, sourceSquare, body, clicks,
                   lastCell, prevCell, calls, redraws, accessed, errors, pre, pre2>>

NextAccess == CallGet \/ CallSet

\* Board.get and Board.set called on the constructed board with positions
\* in and out of range.
SpecAccess == Init /\ [][NextAccess]_vars

\* ------------------------------------------------------------ the claims

Positions == [file : Coords, rank : Coords]

\* The content of the square at pos in the grid sq.
At(sq, pos) == sq[pos.file][pos.rank]

\* The square a rendered cell stands for: the cell in row `row` from the
\* top and column `col` from the left shows file col, rank 7 - row.
SquareOf(cell) == [file |-> cell.col, rank |-> (SIZE - 1) - cell.row]

\* The squares of the last click and of the click before it.
ClickedPos == SquareOf(lastCell)
PrevClickedPos == SquareOf(prevCell)

Occupied(sq) == {pos \in Positions : At(sq, pos) # NULL}

BackRank == <<ROOK, KNIGHT, BISHOP, QUEEN, KING, BISHOP, KNIGHT, ROOK>>

\* C1: a freshly constructed Board (no click delivered yet) holds the back
\* rank sequence ROOK, KNIGHT, BISHOP, QUEEN, KING, BISHOP, KNIGHT, ROOK at
\* files 0..7 of rank 0 (first player) and of rank 7 (second player), eight
\* first-player pawns on rank 1, eight second-player pawns on rank 6,
\* nothing on ranks 2..5, 32 occupied squares, and no selected square.
C1_InitialLayout ==
    clicks = 0 =>
        /\ DOMAIN squares = Coords
        /\ \A file \in Coords :
              /\ DOMAIN squares[file] = Coords
              /\ squares[file][0] # NULL
              /\ Pieces[squares[file][0]] = [pieceType |-> BackRank[file + 1], color |-> WHITE]
              /\ squares[file][7] # NULL
              /\ Pieces[squares[file][7]] = [pieceType |-> BackRank[file + 1], color |-> BLACK]
              /\ squares[file][1] # NULL
              /\ Pieces[squares[file][1]] = [pieceType |-> PAWN, color |-> WHITE]
              /\ squares[file][6] # NULL
              /\ Pieces[squares[file][6]] = [pieceType |-> PAWN, color |-> BLACK]
              /\ \A rank \in 2..5 : squares[file][rank] = NULL
        /\ Cardinality(Occupied(squares)) = 32
        /\ selectedSquare = NullPos

\* The board right after construction, before the first draw: its queen's
\* and king's files hold the two queens and the two kings.
C1_Witness ==
    /\ pc = "start"
    /\ clicks = 0
    /\ Pieces[squares[3][0]].pieceType = QUEEN
    /\ Pieces[squares[4][7]].pieceType = KING
    /\ Cardinality(Occupied(squares)) = 32

\* The last two clicks were a click, while Idle, on a square then holding a
\* piece, followed by a click on another square.
SourceThenDestination ==
    /\ clicks >= 2
    /\ pre2.sourceSquare = NullPos
    /\ At(pre2.squares, PrevClickedPos) # NULL
    /\ ClickedPos # PrevClickedPos

\* C2: relocation is an unconditional overwrite.  From Idle, with P on the
\* source square and Q (a piece of either colour, or nothing) on a distinct
\* destination square, after a click on the source and then a click on the
\* destination: the destination holds P, the source is empty, Q is on no
\* square, and the handler ran to its end (it drew once).
C2_UnconditionalOverwrite ==
    SourceThenDestination =>
        LET P == At(pre2.squares, PrevClickedPos)
            Q == At(pre2.squares, ClickedPos)
        IN  /\ At(squares, ClickedPos) = P
            /\ At(squares, PrevClickedPos) = NULL
            /\ Q # NULL => \A pos \in Positions : At(squares, pos) # Q
            /\ redraws = 1

\* A relocation onto a piece of the mover's own colour has happened.
C2_Witness ==
    /\ SourceThenDestination
    /\ At(pre2.squares, ClickedPos) # NULL
    /\ Pieces[At(pre2.squares, ClickedPos)].color =
          Pieces[At(pre2.squares, PrevClickedPos)].color
    /\ At(squares, ClickedPos) = At(pre2.squares, PrevClickedPos)

\* The last click was made while Armed, on a square other than the source.
RelocationClick ==
    /\ clicks >= 1
    /\ pre.sourceSquare # NullPos
    /\ ClickedPos # pre.sourceSquare

\* The scenario of C3: from the initial layout, (4,1) then (4,3).
PawnScenario ==
    /\ clicks = 2
    /\ prevCell = [row |-> 6, col |-> 4]
    /\ lastCell = [row |-> 4, col |-> 4]

\* C3: a relocation changes the content of exactly the source and the
\* destination square: both change, the other 62 squares hold what they
\* held before the click, and the selection is cleared.  From the initial
\* layout, clicking (4,1) then (4,3) leaves (4,1) empty, a first-player
\* pawn on (4,3) and the other 62 squares as the constructor set them.
C3_RelocationFrame ==
    /\ RelocationClick =>
          /\ \A pos \in Positions :
                (At(squares, pos) # At(pre.squares, pos))
                    <=> (pos \in {pre.sourceSquare, ClickedPos})
          /\ Cardinality(Positions \ {pre.sourceSquare, ClickedPos}) = 62
          /\ selectedSquare = NullPos
    /\ PawnScenario =>
          /\ squares[4][1] = NULL
          /\ squares[4][3] # NULL
          /\ Pieces[squares[4][3]] = [pieceType |-> PAWN, color |-> WHITE]
          /\ \A pos \in Positions \ {[file |-> 4, rank |-> 1], [file |-> 4, rank |-> 3]} :
                At(squares, pos) = At(InitialSquares, pos)
          /\ selectedSquare = NullPos

\* The pawn of (4,1) has been relocated to (4,3) by the first two clicks.
C3_Witness ==
    /\ PawnScenario
    /\ RelocationClick
    /\ squares[4][3] = InitialSquares[4][1]

\* The last two clicks were a click, while Idle, on a square then holding a
\* piece, followed by a click on the same square.
SameSquareTwice ==
    /\ clicks >= 2
    /\ pre2.sourceSquare = NullPos
    /\ At(pre2.squares, PrevClickedPos) # NULL
    /\ ClickedPos = PrevClickedPos

\* C4: the Idle-Armed-Idle round trip.  Starting in Idle, clicking an
\* occupied square and then the same square again leaves all 64 squares
\* with the content they had before the two clicks, and leaves
\* Board.selectedSquare and the source-square marker cleared.
C4_RoundTrip ==
    SameSquareTwice =>
        /\ \A pos \in Positions : At(squares, pos) = At(pre2.squares, pos)
        /\ selectedSquare = NullPos
        /\ sourceSquare = NullPos

\* A round trip made on a board that a relocation has already changed.
C4_Witness ==
    /\ SameSquareTwice
    /\ squares # InitialSquares
    /\ squares = pre2.squares
    /\ sourceSquare = NullPos

\* The last click was made while Idle on an empty square.
IdleClickOnEmpty ==
    /\ clicks >= 1
    /\ pre.sourceSquare = NullPos
    /\ At(pre.squares, ClickedPos) = NULL

\* C5: a click on an empty square while Idle changes nothing in the model:
\* the 64 squares, Board.selectedSquare and the source-square marker are as
\* before the click, and the state is still Idle.
C5_IdleEmptyClickNoOp ==
    IdleClickOnEmpty =>
        /\ \A pos \in Positions : At(squares, pos) = At(pre.squares, pos)
        /\ selectedSquare = pre.selectedSquare
        /\ sourceSquare = pre.sourceSquare
        /\ sourceSquare = NullPos

\* An Idle click on an empty square of a board that a relocation has
\* already changed.
C5_Witness ==
    /\ IdleClickOnEmpty
    /\ squares # InitialSquares
    /\ sourceSquare = NullPos

\* C6: the source-square marker and Board.selectedSquare are in sync after
\* every click handler: both are unset, or both are set and denote the
\* same file and rank.
C6_MarkersInSync ==
    \/ sourceSquare = NullPos /\ selectedSquare = NullPos
    \/ /\ sourceSquare # NullPos
       /\ selectedSquare # NullPos
       /\ sourceSquare.file = selectedSquare.file
       /\ sourceSquare.rank = selectedSquare.rank

\* Armed on a board that a relocation has already changed: both markers
\* denote the square clicked last.
C6_Witness ==
    /\ clicks >= 3
    /\ squares # InitialSquares
    /\ sourceSquare = ClickedPos
    /\ selectedSquare = ClickedPos

\* C7: once drawn, and after any sequence of clicks, the container holds
\* exactly 8 row elements of exactly 8 cell elements each: rows and cells do
\* not accumulate, and the children held before the first draw are gone.
C7_EightByEight ==
    pc = "ready" =>
        /\ Len(body) = 8
        /\ \A r \in 1..Len(body) :
              /\ body[r].classList = {"rank"}
              /\ Len(body[r].children) = 8
              /\ \A c \in 1..Len(body[r].children) :
                    "square" \in body[r].children[c].classList

\* The grid after its fourth redraw by a click.
C7_Witness ==
    /\ clicks >= 4
    /\ redraws = 1
    /\ Len(body) = 8
    /\ Len(body[8].children) = 8

\* The cells of the rendered grid, as row and column (zero-based).
Cells ==
    {cell \in [row : 0..(Len(body) - 1), col : Coords] :
        cell.col < Len(body[cell.row + 1].children)}

Element(cell) == body[cell.row + 1].children[cell.col + 1]

Tagged == {cell \in Cells : "square-selected" \in Element(cell).classList}

\* C8: in the redrawn grid the cells carrying the selected tag are exactly
\* the cells whose (file, rank) is the model's selectedSquare: one cell
\* when a square is selected, none when none is, never more than one.
C8_SelectedTag ==
    pc = "ready" =>
        /\ \A cell \in Cells :
              (cell \in Tagged)
                  <=> (selectedSquare # NullPos /\ SquareOf(cell) = selectedSquare)
        /\ Cardinality(Tagged) = IF selectedSquare = NullPos THEN 0 ELSE 1

\* A selection made after a relocation: the cell of the selected square,
\* and no other, carries the tag.
C8_Witness ==
    /\ pc = "ready"
    /\ clicks >= 3
    /\ selectedSquare # NullPos
    /\ Tagged = {cell \in Cells : SquareOf(cell) = selectedSquare}
    /\ Cardinality(Tagged) = 1

\* C9: in the redrawn grid the cell for (file, rank) shows glyph text if
\* and only if squares[file][rank] is occupied, and the text is the glyph
\* of the occupying piece's type for the occupying piece's colour.
C9_GlyphFidelity ==
    pc = "ready" =>
        \A cell \in Cells :
            LET content == At(squares, SquareOf(cell))
            IN  /\ (Element(cell).innerText # "") <=> (content # NULL)
                /\ content # NULL =>
                      Element(cell).innerText =
                          Pieces[content].pieceType.character[Pieces[content].color]

\* A piece relocated to a square that the constructor left empty is shown
\* there, and its old square shows no text.
C9_Witness ==
    /\ pc = "ready"
    /\ RelocationClick
    /\ At(InitialSquares, ClickedPos) = NULL
    /\ At(squares, ClickedPos) # NULL
    /\ \E cell \in Cells :
          /\ SquareOf(cell) = ClickedPos
          /\ Element(cell).innerText = Piece_character(At(squares, ClickedPos))
    /\ \E cell \in Cells :
          /\ SquareOf(cell) = pre.sourceSquare
          /\ Element(cell).innerText = ""

\* C10: a click on the cell in row r from the top and column c from the
\* left calls onSquareClick exactly once, with (c, 7 - r): every rendered
\* cell has exactly one click listener, and the calls made by the last
\* click are the single call onSquareClick(c, 7 - r) for the cell clicked.
C10_ClickCoordinates ==
    pc = "ready" =>
        /\ \A cell \in Cells : Len(Element(cell).listeners) = 1
        /\ clicks >= 1 =>
              calls = << [file |-> lastCell.col, rank |-> 7 - lastCell.row] >>

\* A click, after a redraw, on the cell in row 1, column 6 (zero-based):
\* it called onSquareClick(6, 6), once.
C10_Witness ==
    /\ clicks >= 2
    /\ lastCell = [row |-> 1, col |-> 6]
    /\ calls = << [file |-> 6, rank |-> 6] >>

\* The last direct call of get or set had a file or a rank outside 0..7.
OutOfRangeCall ==
    /\ api.op # "none"
    /\ (api.pos.file \notin 0..7 \/ api.pos.rank \notin 0..7)

\* C11: a call of Board.get or Board.set with a file or a rank outside
\* 0..7 fails fast: it raises an error, rather than return a value or
\* change the grid.
C11_OutOfRangeFailsFast ==
    OutOfRangeCall => (api.threw /\ squares = api.before)

\* What the code does on such a call: it raises (a TypeError) exactly when
\* the file is out of range, and then leaves the grid alone; with the file
\* in range and the rank out of range, get returns undefined and set stores
\* the piece under the new index of squares[file].
C11_WhatTheCodeDoes ==
    OutOfRangeCall =>
        /\ api.threw <=> (api.pos.file \notin 0..7)
        /\ api.threw => squares = api.before
        /\ (~api.threw /\ api.op = "get") =>
              (api.value = ArrayRead(api.before[api.pos.file], api.pos.rank)
                  /\ squares = api.before)
        /\ (~api.threw /\ api.op = "set") =>
              /\ api.pos.rank \in DOMAIN squares[api.pos.file]
              /\ squares[api.pos.file][api.pos.rank] = api.piece
              /\ squares # api.before \/ api.pos.rank \in DOMAIN api.before[api.pos.file]


\* C12: no transition fails under normal input.  Whatever cells of the
\* rendered grid are clicked, every position the handler of the last click
\* passed to get or set has its file and its rank in 0..7, the stored
\* source square, when set, has too, and the handler raised no error and
\* ran to its end (it reached its draw).
C12_NoFailureUnderClicks ==
    /\ \A k \in 1..Len(accessed) : accessed[k] \in Positions
    /\ sourceSquare # NullPos => sourceSquare \in Positions
    /\ errors = 0
    /\ clicks >= 1 => redraws >= 1

\* A relocation onto the far corner: the handler made its four accesses
\* (get of the clicked square, get of the source, set of the destination,
\* set of the source) and raised nothing.
C12_Witness ==
    /\ clicks = 2
    /\ Len(accessed) = 4
    /\ accessed[1] = [file |-> 7, rank |-> 7]
    /\ accessed[2] = [file |-> 0, rank |-> 0]
    /\ errors = 0

\* C13: after any sequence of clicks the grid is exactly 8 files by 8
\* ranks and every cell holds one piece or null: no click adds or removes a
\* row or a column, or leaves a cell undefined.
C13_GridShape ==
    /\ DOMAIN squares = Coords
    /\ \A file \in Coords :
          /\ DOMAIN squares[file] = Coords
          /\ \A rank \in Coords :
                squares[file][rank] \in {NULL} \cup DOMAIN Pieces

\* Two relocations later the source of the last one holds null and the grid
\* has its 64 cells.
C13_Witness ==
    /\ clicks >= 4
    /\ RelocationClick
    /\ squares[pre.sourceSquare.file][pre.sourceSquare.rank] = NULL
    /\ Cardinality({pos \in Positions : pos.rank \in DOMAIN squares[pos.file]}) = 64

\* The last click was made while Idle on a square holding a piece.
IdleClickOnOccupied ==
    /\ clicks >= 1
    /\ pre.sourceSquare = NullPos
    /\ At(pre.squares, ClickedPos) # NULL

\* C14: Idle plus a click on an occupied square moves to Armed.  The
\* source-square marker and Board.selectedSquare are both the clicked
\* (file, rank), and all 64 squares hold what they held before the click.
C14_IdleToArmed ==
    IdleClickOnOccupied =>
        /\ sourceSquare = ClickedPos
        /\ selectedSquare = ClickedPos
        /\ \A pos \in Positions : At(squares, pos) = At(pre.squares, pos)

\* A second-player piece armed after a relocation of a first-player piece.
C14_Witness ==
    /\ IdleClickOnOccupied
    /\ clicks = 3
    /\ sourceSquare = ClickedPos
    /\ Pieces[At(squares, ClickedPos)].color = BLACK
    /\ Cardinality(Occupied(squares)) = 32
    /\ squares # InitialSquares

\* The last click was made while Armed.
ArmedClick ==
    /\ clicks >= 1
    /\ pre.sourceSquare # NullPos

\* C15: Armed lasts exactly one click.  A click made while Armed, on the
\* source or on any other square, occupied or empty, leaves the
\* source-square marker and Board.selectedSquare cleared (Idle); so the
\* state is never Armed after two clicks in a row.
C15_ArmedOneClick ==
    /\ ArmedClick => (sourceSquare = NullPos /\ selectedSquare = NullPos)
    /\ ~(clicks >= 1 /\ pre.sourceSquare # NullPos /\ sourceSquare # NullPos)

\* A click made while Armed on an empty square away from the source's
\* file: Idle again.
C15_Witness ==
    /\ ArmedClick
    /\ ClickedPos.file # pre.sourceSquare.file
    /\ At(pre.squares, ClickedPos) = NULL
    /\ sourceSquare = NullPos
    /\ selectedSquare = NullPos

\* C16: in every state reachable by clicks, a selected square (the one of
\* Board.selectedSquare, and the one of the source-square marker) holds a
\* piece; so a relocation moves an actual piece: the destination then holds
\* the piece the source held, never an empty content.
C16_SelectedHoldsPiece ==
    /\ selectedSquare # NullPos =>
          (selectedSquare \in Positions /\ At(squares, selectedSquare) \in DOMAIN Pieces)
    /\ sourceSquare # NullPos =>
          (sourceSquare \in Positions /\ At(squares, sourceSquare) \in DOMAIN Pieces)
    /\ RelocationClick =>
          /\ At(pre.squares, pre.sourceSquare) \in DOMAIN Pieces
          /\ At(squares, ClickedPos) = At(pre.squares, pre.sourceSquare)

\* A piece selected on a square the constructor left empty: it was
\* relocated there, and is selected again.
C16_Witness ==
    /\ sourceSquare # NullPos
    /\ selectedSquare = sourceSquare
    /\ At(InitialSquares, sourceSquare) = NULL
    /\ At(squares, sourceSquare) \in DOMAIN Pieces

\* The pieces the constructor put on the board.
InitialPieces == {At(InitialSquares, pos) : pos \in Occupied(InitialSquares)}

\* C17: clicks never create or duplicate a piece.  Every piece on the
\* board is one of the 32 of the initial layout, no piece is on two
\* squares, and a click changes the number of occupied squares by 0 or by
\* -1: by -1 exactly when it is a relocation onto an occupied square other
\* than the source.
C17_PiecesConserved ==
    /\ Cardinality(InitialPieces) = 32
    /\ \A pos \in Occupied(squares) : At(squares, pos) \in InitialPieces
    /\ Cardinality({At(squares, pos) : pos \in Occupied(squares)})
          = Cardinality(Occupied(squares))
    /\ clicks >= 1 =>
          LET change == Cardinality(Occupied(squares)) - Cardinality(Occupied(pre.squares))
          IN  /\ change \in {0, -1}
              /\ (change = -1) <=>
                    (RelocationClick /\ At(pre.squares, ClickedPos) # NULL)

\* Two relocations onto occupied squares: 30 pieces are left.
C17_Witness ==
    /\ clicks >= 4
    /\ RelocationClick
    /\ At(pre.squares, ClickedPos) # NULL
    /\ Cardinality(Occupied(squares)) = 30

\* C18: the view is never stale.  The script draws the board once at
\* startup, and the handler of every click (the Idle click on an empty
\* square included) draws exactly once, after its updates of the model: in
\* every state between two events the rendered grid is the drawing of the
\* current squares and selectedSquare.
C18_ViewNeverStale ==
    /\ pc = "start" => redraws = 0
    /\ pc = "ready" =>
          /\ redraws = 1
          /\ body = Board_draw(squares, selectedSquare, <<>>)

\* An Idle click on an empty square, after a relocation: one redraw, and
\* the grid shows the relocated piece.
C18_Witness ==
    /\ IdleClickOnEmpty
    /\ clicks >= 3
    /\ redraws = 1
    /\ squares # InitialSquares
    /\ body = Board_draw(squares, selectedSquare, <<>>)

\* C19: draw emits the rows in rank order 7 down to 0 and, in each row, the
\* cells in file order 0 up to 7: row i (from 0), cell j (from 0) of the
\* container shows squares[j][7 - i].
C19_DrawOrder ==
    pc = "ready" =>
        /\ Len(body) = SIZE
        /\ \A i \in 0..(SIZE - 1) :
              /\ Len(body[i + 1].children) = SIZE
              /\ \A j \in 0..(SIZE - 1) :
                    body[i + 1].children[j + 1] =
                        SquareElement(squares, selectedSquare, j, 7 - i)

\* The second player's queen's rook relocated from (0,7) to (7,0): row 0
\* shows nothing in cell 0, row 7 shows the rook in cell 7.
C19_Witness ==
    /\ pc = "ready"
    /\ RelocationClick
    /\ pre.sourceSquare = [file |-> 0, rank |-> 7]
    /\ ClickedPos = [file |-> 7, rank |-> 0]
    /\ body[1].children[1].innerText = ""
    /\ body[8].children[8].innerText = ROOK.character[BLACK]
    /\ body[1].children[8].innerText = ROOK.character[BLACK]

\* C20: in every redraw each cell carries exactly one of the dark and the
\* light tag, and the cell of (file, rank) is dark if and only if
\* (file + rank) % 2 = 0, whatever the cell holds and whatever is selected.
C20_DarkLight ==
    pc = "ready" =>
        \A cell \in Cells :
            LET pos == SquareOf(cell)
                tags == Element(cell).classList
            IN  /\ ("square-dark" \in tags) <=> ((pos.file + pos.rank) % 2 = 0)
                /\ ("square-light" \in tags) <=> ("square-dark" \notin tags)

\* A selected, occupied light cell next to an empty dark one.
C20_Witness ==
    /\ pc = "ready"
    /\ selectedSquare = [file |-> 1, rank |-> 0]
    /\ Element([row |-> 7, col |-> 1]).classList =
          {"square", "square-light", "square-selected"}
    /\ Element([row |-> 7, col |-> 1]).innerText # ""
    /\ Element([row |-> 4, col |-> 1]).classList = {"square", "square-dark"}
    /\ Element([row |-> 4, col |-> 1]).innerText = ""

=============================================================================
